---------------------------- MODULE Spec2Model ----------------------------
(***************************************************************************)
(* Model of the Telegram mini-app server: the initData signature check     *)
(* (verifyTelegramData) and the HTTP handlers over the Users table, in the *)
(* two revisions the repository holds:                                     *)
(*   "index"   src/index.js (SHA-256 key, plain update-balance)            *)
(*   "part002" src/unnamed/part_002 lines 201-486 (HMAC key, update-balance*)
(*             in a transaction, get-user, get-leaderboard)                *)
(* The earlier draft at part_002 lines 1-199 has the save-user of "part002"*)
(* and the update-balance of "index"; the draft at lines 488-584 reads the  *)
(* dropped table "User".  Neither is a revision of its own here.           *)
(* Rows carry id, telegramId, firstName, lastName, balance and createdAt.   *)
(* username, languageCode and isPremium are optional members written by    *)
(* create alone, as lastName is, and are not modelled; nor is updatedAt.   *)
(* Time is counted in requests received.                                   *)
(* Strings are sequences of UTF-16 code units (naturals).  Every await on  *)
(* the store is one atomic step of a request; the synchronous code between *)
(* two awaits belongs to the step of the await before it.                  *)
(***************************************************************************)
EXTENDS Integers, Sequences, FiniteSets, TLC

VARIABLES
    rev,        \* the revision that is deployed
    botToken,   \* process.env.BOT_TOKEN (<<>> when it is not set)
    users,      \* the rows of table "Users"
    users0,     \* the rows the table held when the run began
    nextId,     \* the number of rows created so far (ids are generated, unique)
    req,        \* the requests: req[s] is the state of request s
    vTok,       \* verifier runs: the bot token
    vOrig,      \* verifier runs: the payload as first given
    vData,      \* verifier runs: the payload after reordering / tampering
    vChanged    \* verifier runs: what was tampered with ("none", "hash", "value")

vars == <<rev, botToken, users, users0, nextId, req, vTok, vOrig, vData, vChanged>>

-----------------------------------------------------------------------------
(* Bounds *)

\* number of requests of one run
MaxReq == 2
\* longest field value of a payload given to the verifier runs
MaxValLen == 1

-----------------------------------------------------------------------------
(* Strings *)

\* '\n', the separator of join('\n')
NL == 10
\* '=', of the template `${key}=${data[key]}`
EQ == 61

\* "hash"
hashK == <<104, 97, 115, 104>>
\* "user"
userK == <<117, 115, 101, 114>>
\* "WebAppData"
WebAppData == <<87, 101, 98, 65, 112, 112, 68, 97, 116, 97>>

MinOf(S) == CHOOSE x \in S : \A y \in S : x <= y

\* a < b in the order of Array.prototype.sort() without a comparator: by code
\* units, a proper prefix first
StrLess(a, b) ==
    LET n == IF Len(a) < Len(b) THEN Len(a) ELSE Len(b)
        diff == {i \in 1..n : a[i] # b[i]}
    IN  IF diff = {} THEN Len(a) < Len(b)
        ELSE a[MinOf(diff)] < b[MinOf(diff)]

-----------------------------------------------------------------------------
(* Objects: the insertion-ordered field list of a JS object with string keys *)

HasKey(data, k) == \E i \in 1..Len(data) : data[i].k = k

\* data[k] of a key that is present
Get(data, k) == data[CHOOSE i \in 1..Len(data) : data[i].k = k].v

RECURSIVE ObjectFromEntries(_)
\* Object.fromEntries(new URLSearchParams(initData)): a repeated name keeps its
\* first position and takes the last value
ObjectFromEntries(pairs) ==
    IF pairs = <<>> THEN <<>>
    ELSE LET n == Len(pairs)
             init == ObjectFromEntries(SubSeq(pairs, 1, n - 1))
             p == pairs[n]
         IN  IF HasKey(init, p.k)
             THEN [i \in 1..Len(init) |-> IF init[i].k = p.k THEN p ELSE init[i]]
             ELSE Append(init, p)

ObjectKeys(data) == [i \in 1..Len(data) |-> data[i].k]

RECURSIVE Insert(_, _)
Insert(sorted, k) ==
    IF sorted = <<>> THEN <<k>>
    ELSE IF StrLess(k, Head(sorted)) THEN <<k>> \o sorted
    ELSE <<Head(sorted)>> \o Insert(Tail(sorted), k)

RECURSIVE SortKeys(_)
\* .sort()
SortKeys(keys) ==
    IF keys = <<>> THEN <<>> ELSE Insert(SortKeys(Tail(keys)), Head(keys))

RECURSIVE Join(_, _)
\* .join(sep)
Join(strs, sep) ==
    IF strs = <<>> THEN <<>>
    ELSE IF Len(strs) = 1 THEN strs[1]
    ELSE strs[1] \o <<sep>> \o Join(Tail(strs), sep)

-----------------------------------------------------------------------------
(* The hash primitives, uninterpreted: a digest is the term that made it *)

\* crypto.createHash('sha256').update(m).digest()
Sha256(m) == [fn |-> "sha256", key |-> <<>>, msg |-> m]

\* crypto.createHmac('sha256', key).update(m).digest()
HmacSha256(key, m) == [fn |-> "hmac", key |-> key, msg |-> m]

\* the bytes of a key digest, one string per term
KeyBytes(d) == <<(IF d.fn = "sha256" THEN 1 ELSE 2)>> \o d.key \o <<0>> \o d.msg

\* .digest('hex') of an HMAC keyed by a digest: one string per term (the hex
\* rendering is injective; code unit 0 occurs in no key, token or payload)
Hex(d) == KeyBytes(d.key) \o <<0>> \o d.msg

-----------------------------------------------------------------------------
(* verifyTelegramData *)

\* if (!process.env.BOT_TOKEN) throw ...
BotTokenMissing(token) == token = <<>>

dataCheckString_Unsorted(data) ==
    LET keys == SelectSeq(ObjectKeys(data), LAMBDA k : k # hashK)
    IN  Join([i \in 1..Len(keys) |-> keys[i] \o <<EQ>> \o Get(data, keys[i])], NL)

\* Object.keys(data).filter(key !== 'hash').sort().map(`${key}=${data[key]}`).join('\n')
dataCheckString(data) ==
    LET keys == SortKeys(SelectSeq(ObjectKeys(data), LAMBDA k : k # hashK))
    IN  Join([i \in 1..Len(keys) |-> keys[i] \o <<EQ>> \o Get(data, keys[i])], NL)

\* the signing key of each revision
secretKey(r, token) ==
    IF r = "index" THEN Sha256(token) ELSE HmacSha256(WebAppData, token)

\* crypto.createHmac('sha256', secretKey).update(dataCheckString).digest('hex')
calculatedHmac(r, data, token) ==
    Hex(HmacSha256(secretKey(r, token), dataCheckString(data)))

verifyTelegramData_Truncated(r, data, token) ==
    LET hmac == calculatedHmac(r, data, token)
        cut(x) == SubSeq(x, 1, Len(x) - 1)
    IN  HasKey(data, hashK) /\ cut(hmac) = cut(Get(data, hashK))

verifyTelegramData_MissingHashPasses(r, data, token) ==
    LET hmac == calculatedHmac(r, data, token)
    IN  ~HasKey(data, hashK) \/ hmac = Get(data, hashK)

\* hmac === data.hash (data.hash is undefined when the field is absent)
verifyTelegramData(r, data, token) ==
    LET hmac == calculatedHmac(r, data, token)
    IN  HasKey(data, hashK) /\ hmac = Get(data, hashK)

-----------------------------------------------------------------------------
(* The signature check of section 4.1 of the specification, step by step, *)
(* stated on the set of fields and not on their insertion order            *)

Revisions == {"index", "part002"}

\* steps 2 and 3: the names other than hash, ascending
RefSortedNames(data) ==
    LET names == {data[i].k : i \in 1..Len(data)} \ {hashK}
    IN  CHOOSE q \in [1..Cardinality(names) -> names] :
            \A i, j \in 1..Cardinality(names) : i < j => StrLess(q[i], q[j])

\* step 4: name=value pairs, one newline between neighbours, none at the end
RefCanonical(data) ==
    LET q == RefSortedNames(data)
        pair(i) == q[i] \o <<EQ>> \o Get(data, q[i])
        F[i \in 0..Len(q)] ==
            IF i = 0 THEN <<>>
            ELSE IF i = 1 THEN pair(1)
            ELSE F[i - 1] \o <<NL>> \o pair(i)
    IN  F[Len(q)]

\* steps 1 and 5: the digest, lowercase hex
RefDigest(data, token) ==
    Hex(HmacSha256(HmacSha256(WebAppData, token), RefCanonical(data)))

\* step 6
RefVerify(data, token) ==
    HasKey(data, hashK) /\ Get(data, hashK) = RefDigest(data, token)

-----------------------------------------------------------------------------
(* Verifier runs: a payload and a token are chosen, the payload's fields   *)
(* are reordered, and one character of it is replaced                      *)

Tokens == {<<116>>, <<117>>}
Alphabet == {97, EQ, NL}
VNames == {<<97>>, <<97, 98>>}

RECURSIVE StringsUpTo(_)
StringsUpTo(n) ==
    IF n = 0 THEN {<<>>}
    ELSE LET shorter == StringsUpTo(n - 1)
         IN  shorter \cup {Append(s, c) : s \in shorter, c \in Alphabet}

\* the field lists without hash: distinct names of VNames in any order
FieldLists ==
    LET vals == StringsUpTo(MaxValLen)
    IN  UNION {{f \in [1..n -> [k : VNames, v : vals]] :
                    \A i, j \in 1..n : i # j => f[i].k # f[j].k}
               : n \in 0..Cardinality(VNames)}

InsertAt(seq, i, x) == SubSeq(seq, 1, i - 1) \o <<x>> \o SubSeq(seq, i, Len(seq))

\* the hash a field list is sent with: signed as Telegram signs, signed with
\* the SHA-256 key, or not a digest of it
HashesFor(fields, token) ==
    { RefDigest(fields, token),
      Hex(HmacSha256(Sha256(token), RefCanonical(fields))),
      <<97>> }

Payloads(token) ==
    FieldLists \cup
    UNION {{InsertAt(f, i, [k |-> hashK, v |-> h]) :
                i \in 1..(Len(f) + 1), h \in HashesFor(f, token)}
           : f \in FieldLists}

\* the handlers' variables while the verifier runs
HandlersIdle ==
    /\ rev = "part002"
    /\ botToken = <<>>
    /\ users = {}
    /\ users0 = {}
    /\ nextId = 0
    /\ req = <<>>

InitVerifier ==
    /\ HandlersIdle
    /\ vTok \in Tokens
    /\ vOrig \in Payloads(vTok)
    /\ vData = vOrig
    /\ vChanged = "none"

\* the same fields inserted in another order: two neighbours change places
VPermute(i) ==
    /\ i \in 1..(Len(vData) - 1)
    /\ vData' = [vData EXCEPT ![i] = vData[i + 1], ![i + 1] = vData[i]]
    /\ UNCHANGED <<rev, botToken, users, users0, nextId, req, vTok, vOrig, vChanged>>

\* one character of the value of field i is replaced by c
VTamper(i, c) ==
    /\ vChanged = "none"
    /\ i \in 1..Len(vData)
    /\ \E j \in 1..Len(vData[i].v) :
          /\ c # vData[i].v[j]
          /\ vData' = [vData EXCEPT ![i].v[j] = c]
    /\ vChanged' = IF vData[i].k = hashK THEN "hash" ELSE "value"
    /\ UNCHANGED <<rev, botToken, users, users0, nextId, req, vTok, vOrig>>

NextVerifier ==
    \/ \E i \in 1..(Cardinality(VNames) + 1) : VPermute(i)
    \/ \E i \in 1..(Cardinality(VNames) + 1), c \in Alphabet : VTamper(i, c)

SpecVerifier == InitVerifier /\ [][NextVerifier]_vars

-----------------------------------------------------------------------------
(* JavaScript values of the request bodies and of the parsed user JSON *)

Undefined == [t |-> "undefined", s |-> <<>>, n |-> 0]
Str(str) == [t |-> "string", s |-> str, n |-> 0]
\* an integral number
Num(n) == [t |-> "number", s |-> <<>>, n |-> n]
\* a number with a fractional part (1.5)
Frac == [t |-> "fraction", s |-> <<>>, n |-> 0]

RECURSIVE ToDigits(_)
\* the decimal digits of a natural number
ToDigits(n) ==
    IF n < 10 THEN <<48 + n>> ELSE Append(ToDigits(n \div 10), 48 + (n % 10))

\* "undefined"
undefinedS == <<117, 110, 100, 101, 102, 105, 110, 101, 100>>

\* String(x)
StringOf(x) ==
    IF x.t = "string" THEN x.s
    ELSE IF x.t = "number" THEN
        (IF x.n < 0 THEN <<45>> \o ToDigits(0 - x.n) ELSE ToDigits(x.n))
    ELSE undefinedS

\* the text of a JSON string / number
JsonText(x) ==
    IF x.t = "string" THEN <<34>> \o x.s \o <<34>> ELSE StringOf(x)

\* "name":value of a JSON member, nothing when the value is undefined
JsonMember(name, x) ==
    IF x.t = "undefined" THEN <<>> ELSE <<34>> \o name \o <<34, 58>> \o JsonText(x)

\* the JSON text {"id":<id>,"first_name":<first>,"last_name":<last>}, a
\* member left out when it is undefined
UserJson3(id, first, last) ==
    LET all == << JsonMember(<<105, 100>>, id),
                  JsonMember(<<102, 105, 114, 115, 116, 95, 110, 97, 109, 101>>, first),
                  JsonMember(<<108, 97, 115, 116, 95, 110, 97, 109, 101>>, last) >>
    IN  <<123>> \o Join(SelectSeq(all, LAMBDA m : m # <<>>), 44) \o <<125>>

\* the JSON text without last_name
UserJson(id, first) == UserJson3(id, first, Undefined)

\* the member values the user JSON texts of a run are made of
JsonIds == {Str(<<49>>), Str(<<50>>), Num(1), Undefined}
JsonNames == {Str(<<65>>), Str(<<66>>), Undefined}
JsonLastNames == {Str(<<76>>), Undefined}

\* JSON.parse(text) of a user object; ok is FALSE where it throws SyntaxError
JSONparse(text) ==
    IF \E i \in JsonIds, f \in JsonNames, l \in JsonLastNames : text = UserJson3(i, f, l)
    THEN LET m == CHOOSE m \in JsonIds \X JsonNames \X JsonLastNames :
                      text = UserJson3(m[1], m[2], m[3])
         IN  [ok |-> TRUE, id |-> m[1], first_name |-> m[2], last_name |-> m[3]]
    ELSE [ok |-> FALSE, id |-> Undefined, first_name |-> Undefined, last_name |-> Undefined]

-----------------------------------------------------------------------------
(* The store: table "Users" behind the Prisma client *)

\* INTEGER of PostgreSQL: the largest balance
Int32Max == 2147483647

InInt32(n) == n >= 0 - Int32Max - 1 /\ n <= Int32Max

\* whether balance + amount is in the column's range (decided without
\* forming a sum outside it)
SumInInt32(balance, amount) ==
    IF amount >= 0 THEN balance <= Int32Max - amount
    ELSE balance >= (0 - Int32Max - 1) - amount

\* findUnique({ where: { telegramId } }): the row, if there is one
FindUnique(us, tid) == {u \in us : u.telegramId = tid}

UniqueViolation_NoIndex(us, tid) == FALSE

\* CREATE UNIQUE INDEX "Users_telegramId_key": create throws for a telegramId
\* that a row holds
UniqueViolation(us, tid) == \E u \in us : u.telegramId = tid

\* create({ data: { telegramId, firstName, lastName, ..., balance: 0 } }): the
\* new row; lastName undefined is stored as NULL, createdAt is DEFAULT now
NewRow(id, tid, first, last, at) ==
    [id |-> id, telegramId |-> tid, firstName |-> first, lastName |-> last,
     balance |-> 0, createdAt |-> at]

Increment_AllRows(us, tid, amount) ==
    {[u EXCEPT !.balance = @ + amount] : u \in us}

\* update({ where: { telegramId }, data: { balance: { increment: amount } } }):
\* SET balance = balance + amount on the row as it is stored
Increment(us, tid, amount) ==
    {IF u.telegramId = tid THEN [u EXCEPT !.balance = @ + amount] ELSE u : u \in us}

CountGte_Strict(us, b) == Cardinality({u \in us : u.balance > b})

\* count({ where: { balance: { gte: b } } })
CountGte(us, b) == Cardinality({u \in us : u.balance >= b})

\* count()
CountAll(us) == Cardinality(us)

\* take: 100
Take == 100

\* findMany({ orderBy: { balance: 'desc' }, take: 100 }): the orders the store
\* may answer with (rows of equal balance in either order)
FindManyTop(us) ==
    LET n == IF Cardinality(us) < Take THEN Cardinality(us) ELSE Take
    IN  {q \in [1..n -> us] :
            /\ \A i, j \in 1..n : i # j => q[i] # q[j]
            /\ \A i, j \in 1..n : i < j => q[i].balance >= q[j].balance
            /\ \A u \in us : (\A i \in 1..n : q[i] # u) =>
                                \A i \in 1..n : q[i].balance >= u.balance}

\* String(index + 1).padStart(3, '0')
PadStart3(str) ==
    IF Len(str) >= 3 THEN str
    ELSE [i \in 1..3 |-> IF i <= 3 - Len(str) THEN 48 ELSE str[i - (3 - Len(str))]]

RECURSIVE TrimStart(_)
TrimStart(str) ==
    IF str # <<>> /\ Head(str) = 32 THEN TrimStart(Tail(str)) ELSE str

RECURSIVE TrimEnd(_)
TrimEnd(str) ==
    IF str # <<>> /\ str[Len(str)] = 32 THEN TrimEnd(SubSeq(str, 1, Len(str) - 1)) ELSE str

\* .trim()
Trim(str) == TrimEnd(TrimStart(str))

\* leaderboardUsers.map(...): name is `${firstName} ${lastName || ''}`.trim()
LeaderboardOf(q) ==
    [i \in 1..Len(q) |->
        [id |-> PadStart3(ToDigits(i)),
         name |-> Trim(q[i].firstName \o <<32>> \o q[i].lastName.s),
         balance |-> q[i].balance]]

-----------------------------------------------------------------------------
(* Requests *)

Slots == 1..MaxReq

\* the telegramId strings "1" and "2"
Tid1 == <<49>>
Tid2 == <<50>>

NoRow == {}

Idle ==
    [kind |-> "none", pc |-> "idle", input |-> <<>>,
     tid |-> <<>>, firstName |-> <<>>, lastName |-> Undefined,
     amount |-> 0, existing |-> NoRow,
     status |-> 0, user |-> NoRow, leaderboard |-> <<>>,
     balance |-> 0, position |-> 0, totalUsers |-> 0,
     solo |-> TRUE, quiet |-> TRUE, dbCalls |-> 0]

InFlight(r) == r.pc \notin {"idle", "done"}

\* now(): the time, counted in requests received
Now == Cardinality({s \in Slots : req[s].pc # "idle"})

\* request s arrives as record rec: it runs alone if no request is in flight,
\* and the requests in flight no longer run alone
Arrive(s, rec) ==
    /\ req[s].pc = "idle"
    /\ s > 1 => req[s - 1].pc # "idle"
    /\ req' = [t \in Slots |->
                 IF t = s THEN [rec EXCEPT !.solo = \A o \in Slots : ~InFlight(req[o])]
                 ELSE IF InFlight(req[t]) THEN [req[t] EXCEPT !.solo = FALSE]
                 ELSE req[t]]

\* request s moves on to rec and the table becomes us: a change of the table
\* is a write that every other request may have raced with
Step(s, rec, us) ==
    /\ users' = us
    /\ req' = [t \in Slots |->
                 IF t = s THEN rec
                 ELSE IF us # users THEN [req[t] EXCEPT !.quiet = FALSE]
                 ELSE req[t]]

Respond(r, status) == [r EXCEPT !.pc = "done", !.status = status]

-----------------------------------------------------------------------------
(* POST /api/save-user *)

\* the code of save-user before its first store call: the status it answers
\* with (0: none, it goes on to the store) and the validated user
SaveUserPrefix(r, initData, token) ==
    LET data == ObjectFromEntries(initData)
        stop(st) == [status |-> st, tid |-> <<>>, firstName |-> <<>>,
                     lastName |-> Undefined]
        hasUser == HasKey(data, userK) /\ Get(data, userK) # <<>>
        parsed == IF HasKey(data, userK) THEN JSONparse(Get(data, userK))
                  ELSE [ok |-> FALSE, id |-> Undefined, first_name |-> Undefined,
                        last_name |-> Undefined]
        \* index.js: data.user ? JSON.parse(data.user).id : undefined
        \* part_002: String(user.id)
        id == IF r = "index" THEN (IF hasUser THEN parsed.id ELSE Undefined)
              ELSE Str(StringOf(parsed.id))
        first == IF hasUser THEN parsed.first_name ELSE Undefined
        last == IF hasUser THEN parsed.last_name ELSE Undefined
    IN  IF initData = <<>> THEN stop(400)
        ELSE IF r = "index" /\ (~HasKey(data, hashK) \/ Get(data, hashK) = <<>>)
            THEN stop(400)
        ELSE IF BotTokenMissing(token) THEN stop(500)
        ELSE IF ~verifyTelegramData(r, data, token) THEN stop(403)
        ELSE IF r # "index" /\ ~parsed.ok THEN stop(500)
        ELSE IF r = "index" /\ hasUser /\ ~parsed.ok THEN stop(500)
        ELSE IF id.t # "string" \/ first.t # "string" THEN stop(400)
        ELSE IF last.t \notin {"string", "undefined"} THEN stop(400)
        ELSE [status |-> 0, tid |-> id.s, firstName |-> first.s, lastName |-> last]

SaveUser_Receive(s, initData) ==
    LET p == SaveUserPrefix(rev, initData, botToken)
        r == [Idle EXCEPT !.kind = "save", !.input = initData,
                          !.tid = p.tid, !.firstName = p.firstName,
                          !.lastName = p.lastName]
    IN  /\ Arrive(s, IF p.status # 0 THEN Respond(r, p.status)
                     ELSE [r EXCEPT !.pc = "findUnique"])
        /\ UNCHANGED <<rev, botToken, users, users0, nextId, vTok, vOrig, vData, vChanged>>

SaveUser_FindUnique_WrongKey(s) ==
    LET r == req[s]
        r1 == [r EXCEPT !.existing = NoRow, !.dbCalls = @ + 1]
    IN  /\ r.kind = "save" /\ r.pc = "findUnique"
        /\ Step(s, [r1 EXCEPT !.pc = "create"], users)
        /\ UNCHANGED <<rev, botToken, users0, nextId, vTok, vOrig, vData, vChanged>>

\* const existingUser = await prisma.users.findUnique(...)
SaveUser_FindUnique(s) ==
    LET r == req[s]
        found == FindUnique(users, r.tid)
        r1 == [r EXCEPT !.existing = found, !.dbCalls = @ + 1]
    IN  /\ r.kind = "save" /\ r.pc = "findUnique"
        /\ Step(s, IF found = NoRow THEN [r1 EXCEPT !.pc = "create"]
                   ELSE IF rev = "index" THEN [Respond(r1, 200) EXCEPT !.user = found]
                   ELSE [r1 EXCEPT !.pc = "touch"],
                users)
        /\ UNCHANGED <<rev, botToken, users0, nextId, vTok, vOrig, vData, vChanged>>

SaveUser_Touch_WritesProfile(s) ==
    LET r == req[s]
        after == {IF u.telegramId = r.tid
                  THEN [u EXCEPT !.firstName = r.firstName, !.lastName = r.lastName]
                  ELSE u : u \in users}
    IN  /\ r.kind = "save" /\ r.pc = "touch"
        /\ Step(s, [Respond(r, 200) EXCEPT !.user = r.existing, !.dbCalls = @ + 1], after)
        /\ UNCHANGED <<rev, botToken, users0, nextId, vTok, vOrig, vData, vChanged>>

\* await prisma.users.update({ where, data: {} }): no column is given a value
SaveUser_Touch(s) ==
    LET r == req[s]
    IN  /\ r.kind = "save" /\ r.pc = "touch"
        /\ Step(s, IF FindUnique(users, r.tid) = NoRow
                   THEN Respond([r EXCEPT !.dbCalls = @ + 1], 500)
                   ELSE [Respond(r, 200) EXCEPT !.user = r.existing, !.dbCalls = @ + 1],
                users)
        /\ UNCHANGED <<rev, botToken, users0, nextId, vTok, vOrig, vData, vChanged>>

\* const newUser = await prisma.users.create(...)
SaveUser_Create(s) ==
    LET r == req[s]
        row == NewRow(nextId + 1, r.tid, r.firstName, r.lastName, Now)
    IN  /\ r.kind = "save" /\ r.pc = "create"
        /\ IF UniqueViolation(users, r.tid)
           THEN /\ Step(s, Respond([r EXCEPT !.dbCalls = @ + 1], 500), users)
                /\ nextId' = nextId
           ELSE /\ Step(s, [Respond(r, 201) EXCEPT !.user = {row}, !.dbCalls = @ + 1],
                        users \cup {row})
                /\ nextId' = nextId + 1
        /\ UNCHANGED <<rev, botToken, users0, vTok, vOrig, vData, vChanged>>

-----------------------------------------------------------------------------
(* POST /api/update-balance *)

\* updateBalanceSchema.parse(req.body) / schema.parse(req.body): whether the
\* body passes; part_002 takes a number for telegramId as well
UpdateBodyValid(r, body) ==
    /\ \/ body.telegramId.t = "string"
       \/ r # "index" /\ body.telegramId.t = "number"
    /\ body.amount.t = "number"

UpdateBalance_Receive(s, body) ==
    LET r == [Idle EXCEPT !.kind = "update", !.input = body]
    IN  /\ Arrive(s, IF ~UpdateBodyValid(rev, body) THEN Respond(r, 400)
                     ELSE [r EXCEPT !.pc = "findUnique",
                                    !.tid = StringOf(body.telegramId),
                                    !.amount = body.amount.n])
        /\ UNCHANGED <<rev, botToken, users, users0, nextId, vTok, vOrig, vData, vChanged>>

\* the status for a user that is not found: index.js returns 404; part_002
\* throws Error('User not found') inside the transaction, which the catch
\* block answers with 500
NotFoundStatus(r) == IF r = "index" THEN 404 ELSE 500

\* findUnique, outside (index.js) or inside (part_002) the transaction
UpdateBalance_FindUnique(s) ==
    LET r == req[s]
        found == FindUnique(users, r.tid)
        r1 == [r EXCEPT !.existing = found, !.dbCalls = @ + 1]
    IN  /\ r.kind = "update" /\ r.pc = "findUnique"
        /\ Step(s, IF found = NoRow THEN Respond(r1, NotFoundStatus(rev))
                   ELSE [r1 EXCEPT !.pc = "update"],
                users)
        /\ UNCHANGED <<rev, botToken, users0, nextId, vTok, vOrig, vData, vChanged>>

UpdateBalance_Update_ReadThenWrite(s) ==
    LET r == req[s]
        read == CHOOSE u \in r.existing : TRUE
        after == {IF u.telegramId = r.tid THEN [u EXCEPT !.balance = read.balance + r.amount]
                  ELSE u : u \in users}
        fails == ~InInt32(r.amount) \/ ~SumInInt32(read.balance, r.amount)
    IN  /\ r.kind = "update" /\ r.pc = "update"
        /\ Step(s, IF fails THEN Respond([r EXCEPT !.dbCalls = @ + 1], 500)
                   ELSE [Respond(r, 200) EXCEPT !.user = FindUnique(after, r.tid),
                                                !.dbCalls = @ + 1],
                IF fails THEN users ELSE after)
        /\ UNCHANGED <<rev, botToken, users0, nextId, vTok, vOrig, vData, vChanged>>

\* update with increment (and, in part_002, the commit that follows it); it
\* throws when no row matches or the sum leaves the column's range
UpdateBalance_Update(s) ==
    LET r == req[s]
        now == FindUnique(users, r.tid)
        after == Increment(users, r.tid, r.amount)
        fails == \/ now = NoRow
                 \/ ~InInt32(r.amount)
                 \/ \E u \in now : ~SumInInt32(u.balance, r.amount)
    IN  /\ r.kind = "update" /\ r.pc = "update"
        /\ Step(s, IF fails THEN Respond([r EXCEPT !.dbCalls = @ + 1], 500)
                   ELSE [Respond(r, 200) EXCEPT !.user = FindUnique(after, r.tid),
                                                !.dbCalls = @ + 1],
                IF fails THEN users ELSE after)
        /\ UNCHANGED <<rev, botToken, users0, nextId, vTok, vOrig, vData, vChanged>>

-----------------------------------------------------------------------------
(* GET /api/get-user and GET /api/get-leaderboard (part_002 only) *)

\* !telegramId
QueryMissing(q) == q.t = "undefined" \/ q.s = <<>>

GetUser_Receive(s, q) ==
    LET r == [Idle EXCEPT !.kind = "getUser", !.input = q]
    IN  /\ rev = "part002"
        /\ Arrive(s, IF QueryMissing(q) THEN Respond(r, 400)
                     ELSE [r EXCEPT !.pc = "findUnique", !.tid = q.s])
        /\ UNCHANGED <<rev, botToken, users, users0, nextId, vTok, vOrig, vData, vChanged>>

GetUser_FindUnique(s) ==
    LET r == req[s]
        found == FindUnique(users, r.tid)
        r1 == [r EXCEPT !.existing = found, !.dbCalls = @ + 1]
    IN  /\ r.kind = "getUser" /\ r.pc = "findUnique"
        /\ Step(s, IF found = NoRow THEN Respond(r1, 404)
                   ELSE [Respond(r1, 200) EXCEPT !.user = found],
                users)
        /\ UNCHANGED <<rev, botToken, users0, nextId, vTok, vOrig, vData, vChanged>>

Leaderboard_Receive(s, q) ==
    LET r == [Idle EXCEPT !.kind = "leaderboard", !.input = q]
    IN  /\ rev = "part002"
        /\ Arrive(s, IF QueryMissing(q) THEN Respond(r, 400)
                     ELSE [r EXCEPT !.pc = "findMany", !.tid = StringOf(q)])
        /\ UNCHANGED <<rev, botToken, users, users0, nextId, vTok, vOrig, vData, vChanged>>

\* const leaderboardUsers = await prisma.users.findMany(...)
Leaderboard_FindMany(s) ==
    LET r == req[s]
    IN  /\ r.kind = "leaderboard" /\ r.pc = "findMany"
        /\ \E q \in FindManyTop(users) :
              Step(s, [r EXCEPT !.pc = "findUnique", !.leaderboard = LeaderboardOf(q),
                                !.dbCalls = @ + 1],
                   users)
        /\ UNCHANGED <<rev, botToken, users0, nextId, vTok, vOrig, vData, vChanged>>

\* const userPosition = await prisma.users.findUnique({ select: { balance } })
Leaderboard_FindUnique(s) ==
    LET r == req[s]
        found == FindUnique(users, r.tid)
        r1 == [r EXCEPT !.existing = found, !.dbCalls = @ + 1]
    IN  /\ r.kind = "leaderboard" /\ r.pc = "findUnique"
        /\ Step(s, IF found = NoRow THEN Respond(r1, 404)
                   ELSE [r1 EXCEPT !.pc = "countGte",
                                   !.balance = (CHOOSE u \in found : TRUE).balance],
                users)
        /\ UNCHANGED <<rev, botToken, users0, nextId, vTok, vOrig, vData, vChanged>>

\* const position = await prisma.users.count({ where: { balance: { gte } } })
Leaderboard_CountGte(s) ==
    LET r == req[s]
    IN  /\ r.kind = "leaderboard" /\ r.pc = "countGte"
        /\ Step(s, [r EXCEPT !.pc = "countAll", !.position = CountGte(users, r.balance),
                             !.dbCalls = @ + 1],
                users)
        /\ UNCHANGED <<rev, botToken, users0, nextId, vTok, vOrig, vData, vChanged>>

\* const totalUsers = await prisma.users.count()
Leaderboard_CountAll(s) ==
    LET r == req[s]
    IN  /\ r.kind = "leaderboard" /\ r.pc = "countAll"
        /\ Step(s, [Respond(r, 200) EXCEPT !.totalUsers = CountAll(users),
                                           !.dbCalls = @ + 1],
                users)
        /\ UNCHANGED <<rev, botToken, users0, nextId, vTok, vOrig, vData, vChanged>>

-----------------------------------------------------------------------------
(* Runs of the server *)

\* the token the deployment is configured with
DeployedToken == <<116>>

UserA1 == UserJson(Str(Tid1), Str(<<65>>))
UserN1 == UserJson(Num(1), Str(<<65>>))
UserB1 == UserJson3(Str(Tid1), Str(<<66>>), Str(<<76>>))
UserA2 == UserJson(Str(Tid2), Str(<<65>>))
UserNoName == UserJson(Str(Tid1), Undefined)

\* initData signed as Telegram signs it, and signed with the SHA-256 key
TelegramSigned(fields) ==
    Append(fields, [k |-> hashK, v |-> RefDigest(fields, DeployedToken)])
ShaSigned(fields) ==
    Append(fields, [k |-> hashK,
                    v |-> Hex(HmacSha256(Sha256(DeployedToken), RefCanonical(fields)))])

WithUser(text) == <<[k |-> userK, v |-> text]>>
NoUserFields == <<[k |-> <<97>>, v |-> <<97>>]>>

\* the initData of the save-user requests (<<>>: none)
SaveInputs ==
    {<<>>, WithUser(UserA1), Append(WithUser(UserA1), [k |-> hashK, v |-> <<97>>]),
     Append(WithUser(UserA1), [k |-> hashK, v |-> <<>>])}
    \cup {TelegramSigned(f) : f \in {WithUser(UserA1), WithUser(UserN1), WithUser(UserB1),
                                     WithUser(UserA2), WithUser(UserNoName), NoUserFields}}
    \cup {ShaSigned(f) : f \in {WithUser(UserA1), WithUser(UserN1), WithUser(UserB1),
                                WithUser(UserA2), WithUser(UserNoName), NoUserFields}}

Amounts == {10, -3, Int32Max}

\* the bodies of the update-balance requests
UpdateInputs ==
    {[telegramId |-> t, amount |-> Num(a)] : t \in {Str(Tid1), Str(Tid2)}, a \in Amounts}
    \cup {[telegramId |-> Num(1), amount |-> Num(10)],
          [telegramId |-> Str(Tid1), amount |-> Frac]}

\* the query parameter telegramId of the GET requests
QueryInputs == {Str(Tid1), Str(Tid2), Undefined}

\* the tables a run starts from
InitialStores ==
    { {},
      {NewRow(1, Tid1, <<65>>, Undefined, 0)},
      {NewRow(1, Tid1, <<65>>, Undefined, 0),
       [NewRow(2, Tid2, <<65>>, Undefined, 0) EXCEPT !.balance = 7]} }

VerifierIdle ==
    /\ vTok = <<>>
    /\ vOrig = <<>>
    /\ vData = <<>>
    /\ vChanged = "none"

Init ==
    /\ rev \in Revisions
    /\ botToken = DeployedToken
    /\ users \in InitialStores
    /\ users0 = users
    /\ nextId = Cardinality(users)
    /\ req = [s \in Slots |-> Idle]
    /\ VerifierIdle

Next ==
    \/ \E s \in Slots, d \in SaveInputs : SaveUser_Receive(s, d)
    \/ \E s \in Slots : SaveUser_FindUnique(s)
    \/ \E s \in Slots : SaveUser_Touch(s)
    \/ \E s \in Slots : SaveUser_Create(s)
    \/ \E s \in Slots, b \in UpdateInputs : UpdateBalance_Receive(s, b)
    \/ \E s \in Slots : UpdateBalance_FindUnique(s)
    \/ \E s \in Slots : UpdateBalance_Update(s)
    \/ \E s \in Slots, q \in QueryInputs : GetUser_Receive(s, q)
    \/ \E s \in Slots : GetUser_FindUnique(s)
    \/ \E s \in Slots, q \in QueryInputs : Leaderboard_Receive(s, q)
    \/ \E s \in Slots : Leaderboard_FindMany(s)
    \/ \E s \in Slots : Leaderboard_FindUnique(s)
    \/ \E s \in Slots : Leaderboard_CountGte(s)
    \/ \E s \in Slots : Leaderboard_CountAll(s)

Spec == Init /\ [][Next]_vars

-----------------------------------------------------------------------------
(* Claims about verifyTelegramData, checked under SpecVerifier *)

\* C7: every revision of verifyTelegramData accepts exactly the payloads that
\* the algorithm of section 4.1 (signing key HMAC-SHA256 with key "WebAppData"
\* over the bot token) accepts.
C7_RevisionsMatchReference ==
    \A r \in Revisions : verifyTelegramData(r, vData, vTok) = RefVerify(vData, vTok)

\* C9: whatever the insertion order of the fields, the data-check string is
\* the same, and it is the sorted name=value pairs without hash joined by
\* single newlines; so the digest and the verdict are the same too.
C9_OrderIndependent ==
    vChanged = "none" =>
        /\ dataCheckString(vData) = dataCheckString(vOrig)
        /\ dataCheckString(vData) = RefCanonical(vOrig)
        /\ \A r \in Revisions :
              /\ calculatedHmac(r, vData, vTok) = calculatedHmac(r, vOrig, vTok)
              /\ verifyTelegramData(r, vData, vTok) = verifyTelegramData(r, vOrig, vTok)

\* an accepted payload of two fields and hash whose fields were reordered
C9_Witness ==
    /\ vChanged = "none"
    /\ Len(vData) = 3
    /\ ObjectKeys(vData) # ObjectKeys(vOrig)
    /\ SelectSeq(ObjectKeys(vData), LAMBDA k : k # hashK)
          # SortKeys(SelectSeq(ObjectKeys(vData), LAMBDA k : k # hashK))
    /\ verifyTelegramData("part002", vData, vTok)

\* C10: a payload that a revision accepts is rejected by it after one character
\* of hash, or of another field's value, is replaced ('=' and newline included).
C10_TamperRejected ==
    vChanged # "none" =>
        \A r \in Revisions :
            verifyTelegramData(r, vOrig, vTok) => ~verifyTelegramData(r, vData, vTok)

\* an accepted payload in which a character of a value became a newline
C10_Witness ==
    /\ vChanged = "value"
    /\ verifyTelegramData("part002", vOrig, vTok)
    /\ \E i \in 1..Len(vData) :
          /\ vData[i].k # hashK
          /\ vData[i].v # vOrig[i].v
          /\ \E j \in 1..Len(vData[i].v) : vData[i].v[j] = NL

-----------------------------------------------------------------------------
(* Claims about the handlers, checked under Spec *)

\* the balance telegramId tid had when the run began (0 for a user created
\* during the run)
InitialBalance(tid) ==
    IF \E u \in users0 : u.telegramId = tid
    THEN (CHOOSE u \in users0 : u.telegramId = tid).balance
    ELSE 0

\* the amounts of the update-balance requests for tid answered with 200
RECURSIVE SumSucceeded(_, _)
SumSucceeded(tid, n) ==
    IF n = 0 THEN 0
    ELSE SumSucceeded(tid, n - 1)
         + (IF req[n].kind = "update" /\ req[n].status = 200 /\ req[n].tid = tid
            THEN req[n].amount ELSE 0)

\* C1: whatever the interleaving of the findUnique and update steps, a
\* user's balance is its initial balance plus the amounts of the update-balance
\* requests for it that succeeded: no increment is lost.
C1_NoLostIncrement ==
    \A u \in users :
        u.balance - InitialBalance(u.telegramId) = SumSucceeded(u.telegramId, MaxReq)

\* +10 and -3 on balance 0, both having read balance 0 before either wrote
C1_Witness ==
    \E s, t \in Slots :
        /\ req[s].kind = "update" /\ req[s].status = 200 /\ req[s].amount = 10
        /\ req[t].kind = "update" /\ req[t].status = 200 /\ req[t].amount = -3
        /\ req[s].tid = Tid1 /\ req[t].tid = Tid1
        /\ \A u \in req[s].existing \cup req[t].existing : u.balance = 0
        /\ \E u \in users : u.telegramId = Tid1 /\ u.balance = 7

\* whether a save-user request with this initData gets as far as the store
ReachesStore(d) == SaveUserPrefix(rev, d, botToken).status = 0

\* C2: a save-user request with validly signed initData that loses the create
\* race for a new telegramId is answered 200 or 201, never 500.
C2_RaceLoserSucceeds ==
    \A s \in Slots :
        (req[s].kind = "save" /\ req[s].pc = "done" /\ ReachesStore(req[s].input))
            => req[s].status \in {200, 201}

\* C3: at most one row per telegramId, always; and exactly one once a
\* save-user request for it has been answered 200 or 201.
C3_OneRowPerTelegramId ==
    /\ \A u, v \in users : u.telegramId = v.telegramId => u = v
    /\ \A s \in Slots :
          (req[s].kind = "save" /\ req[s].status \in {200, 201})
              => Cardinality({u \in users : u.telegramId = req[s].tid}) = 1

\* two save-user requests for one new telegramId that both found no row
C3_Witness ==
    \E s, t \in Slots :
        /\ s # t
        /\ req[s].kind = "save" /\ req[t].kind = "save"
        /\ req[s].tid = req[t].tid
        /\ req[s].pc = "done" /\ req[t].pc = "done"
        /\ req[s].dbCalls = 2 /\ req[t].dbCalls = 2
        /\ req[s].existing = NoRow /\ req[t].existing = NoRow
        /\ req[s].status = 201
        /\ Cardinality({u \in users : u.telegramId = req[s].tid}) = 1

\* C4: in each revision, a well-formed update-balance request for a
\* telegramId without a row is answered 404 and changes no row.
C4_NotFoundIs404 ==
    [][\A s \in Slots :
          (/\ req[s].kind = "update" /\ req[s].pc = "findUnique"
           /\ FindUnique(users, req[s].tid) = NoRow
           /\ req'[s].pc = "done")
              => (req'[s].status = 404 /\ users' = users)]_vars

\* C5: of save-user requests that run one at a time with verified initData
\* and a valid user, the first for a telegramId creates its row with balance 0
\* and is answered 201 with it; a later one creates nothing and is answered 200
\* with the row that is stored.
C5_SequentialSaveUser ==
    [][\A s \in Slots :
          (/\ req[s].kind = "save" /\ InFlight(req[s]) /\ req[s].solo
           /\ req'[s].pc = "done")
              => IF FindUnique(users, req[s].tid) = NoRow
                 THEN /\ req'[s].status = 201
                      /\ \E row \in users' :
                            /\ users' = users \cup {row}
                            /\ row.telegramId = req[s].tid
                            /\ row.balance = 0
                            /\ req'[s].user = {row}
                 ELSE /\ req'[s].status = 200
                      /\ users' = users
                      /\ req'[s].user = FindUnique(users, req[s].tid)]_vars

\* a first request answered 201 and a later one answered 200, one at a time
C5_Witness ==
    \E s, t \in Slots :
        /\ req[s].kind = "save" /\ req[t].kind = "save"
        /\ req[s].tid = req[t].tid
        /\ req[s].solo /\ req[t].solo
        /\ req[s].status = 201 /\ req[t].status = 200
        /\ req[t].user = req[s].user
        /\ req[t].user = FindUnique(users, req[t].tid)
        /\ \A u \in req[s].user : u.balance = 0

\* the hash of initData d is missing (absent or empty, what index.js answers
\* with 'hash is missing'), or differs from the digest the revision computes
HashMissing(d) ==
    LET data == ObjectFromEntries(d)
    IN  ~HasKey(data, hashK) \/ Get(data, hashK) = <<>>
HashMismatch(d) ==
    LET data == ObjectFromEntries(d)
    IN  /\ ~HashMissing(d)
        /\ Get(data, hashK) # calculatedHmac(rev, data, botToken)

\* C6: a save-user request whose initData fails verification makes no store
\* call, so it creates and changes no row, and is answered 400 or 403 (403
\* when the hash differs from the digest).
C6_UnverifiedTouchesNothing ==
    \A s \in Slots :
        (/\ req[s].kind = "save" /\ req[s].input # <<>>
         /\ ~BotTokenMissing(botToken)
         /\ (HashMissing(req[s].input) \/ HashMismatch(req[s].input)))
            => /\ req[s].pc = "done"
               /\ req[s].dbCalls = 0
               /\ req[s].status \in {400, 403}
               /\ HashMismatch(req[s].input) => req[s].status = 403

\* a request without hash answered 403 by part_002, after a row was created
C6_Witness ==
    \E s \in Slots :
        /\ rev = "part002"
        /\ req[s].kind = "save" /\ req[s].input # <<>>
        /\ ~HasKey(ObjectFromEntries(req[s].input), hashK)
        /\ req[s].status = 403
        /\ users # users0

\* the balance of the requesting user of request r, as the table holds it
OthersOf(r) == {u \in users : u.telegramId # r.tid}

\* C8, as stated: with no concurrent writer the position is the number of
\* users with a balance >= the requester's; it is 1 for a strictly highest
\* balance; it is totalUsers only if every other balance is strictly higher.
C8_PositionUniqueMinimum ==
    \A s \in Slots :
        (req[s].kind = "leaderboard" /\ req[s].status = 200 /\ req[s].quiet)
            => /\ req[s].position = Cardinality({u \in users : u.balance >= req[s].balance})
               /\ (\A u \in OthersOf(req[s]) : u.balance < req[s].balance)
                      => req[s].position = 1
               /\ req[s].position = req[s].totalUsers
                      => \A u \in OthersOf(req[s]) : u.balance > req[s].balance

\* C8, amended: it is totalUsers only if no other balance is lower.
C8_PositionMinimum ==
    \A s \in Slots :
        (req[s].kind = "leaderboard" /\ req[s].status = 200 /\ req[s].quiet)
            => /\ req[s].position = Cardinality({u \in users : u.balance >= req[s].balance})
               /\ (\A u \in OthersOf(req[s]) : u.balance < req[s].balance)
                      => req[s].position = 1
               /\ req[s].position = req[s].totalUsers
                      => \A u \in OthersOf(req[s]) : u.balance >= req[s].balance

\* the user with the strictly highest balance of two is told position 1
C8_Witness ==
    \E s \in Slots :
        /\ req[s].kind = "leaderboard" /\ req[s].status = 200 /\ req[s].quiet
        /\ req[s].totalUsers = 2
        /\ \A u \in OthersOf(req[s]) : u.balance < req[s].balance
        /\ req[s].position = 1

\* request s is answered 200 by update-balance in this step
UpdateSucceeds(s) ==
    /\ req[s].kind = "update" /\ req[s].pc = "update"
    /\ req'[s].status = 200

\* C11: a row is created with balance 0, and the balance of a stored row
\* changes only in the step that answers an update-balance request for its
\* telegramId with 200, by the amount of that request; every other step (of
\* save-user, get-user, get-leaderboard, of an update-balance answered 400, 404
\* or 500, or of an update-balance for another telegramId) leaves it as it was.
C11_BalanceFrame ==
    [][/\ \A v \in users' :
             IF \E u \in users : u.telegramId = v.telegramId
             THEN \A u \in users :
                     (u.telegramId = v.telegramId /\ u.balance # v.balance)
                         => \E s \in Slots :
                               /\ UpdateSucceeds(s)
                               /\ req[s].tid = u.telegramId
                               /\ v.balance - u.balance = req[s].amount
             ELSE v.balance = 0
       /\ \A s \in Slots :
             UpdateSucceeds(s) =>
                 \A u \in users : u.telegramId = req[s].tid =>
                     \E v \in users' : /\ v.telegramId = u.telegramId
                                       /\ v.balance - u.balance = req[s].amount
       /\ \A s \in Slots :
             (req[s].pc # "done" /\ req'[s].pc = "done" /\ ~UpdateSucceeds(s))
                 => \A u \in users : \E v \in users' :
                       v.telegramId = u.telegramId /\ v.balance = u.balance]_vars

\* an update-balance for "1" answered 200 and one for "2" answered 500, with
\* the balance of "2" as it was
C11_Witness ==
    \E s, t \in Slots :
        /\ req[s].kind = "update" /\ req[s].tid = Tid1 /\ req[s].status = 200
        /\ req[t].kind = "update" /\ req[t].tid = Tid2 /\ req[t].status = 500
        /\ \E u \in users : u.telegramId = Tid1
                            /\ u.balance = InitialBalance(Tid1) + req[s].amount
        /\ \E u \in users : u.telegramId = Tid2 /\ u.balance = 7

\* C13: every 200 answer of get-leaderboard has 1 <= position <= totalUsers,
\* whatever update-balance and save-user steps run between its four queries.
C13_PositionInRange ==
    \A s \in Slots :
        (req[s].kind = "leaderboard" /\ req[s].status = 200)
            => (1 <= req[s].position /\ req[s].position <= req[s].totalUsers)

\* C12: a row that is stored stays stored, with the id, telegramId,
\* createdAt and profile fields it was created with, through every step of
\* save-user (also one whose initData carries another profile),
\* update-balance, get-user and get-leaderboard.
C12_RowIdentityKept ==
    [][\A u \in users : \E v \in users' :
          /\ v.telegramId = u.telegramId
          /\ v.id = u.id
          /\ v.createdAt = u.createdAt
          /\ v.firstName = u.firstName
          /\ v.lastName = u.lastName]_vars

\* a save-user with another profile answered 200 and a changed balance, the
\* row still with the profile it began with
C12_Witness ==
    \E s \in Slots : \E u \in users : \E u0 \in users0 :
        /\ req[s].kind = "save" /\ req[s].status = 200 /\ req[s].tid = u.telegramId
        /\ u0.telegramId = u.telegramId
        /\ req[s].firstName # u.firstName /\ req[s].lastName # u.lastName
        /\ u.firstName = u0.firstName /\ u.lastName = u0.lastName
        /\ u.id = u0.id /\ u.createdAt = u0.createdAt
        /\ u.balance # u0.balance

=============================================================================
